---- MODULE Spec2Model ----
(***************************************************************************)
(* Authentication and session-verification core of the task-management     *)
(* application: token issue (jsonwebtoken), the two token verifiers (jose  *)
(* and jsonwebtoken), the cookie-based session extractors and the edge     *)
(* middleware that gates protected paths.                                  *)
(*                                                                         *)
(* Representation.  A URL path is a sequence of atoms ("/", "login",       *)
(* "dashboard", "x", ...).  No atom is a prefix of another one, so         *)
(* String.startsWith on the text is prefix on the atom sequence.  A        *)
(* compact JWS is a record of its decoded header algorithm, its decoded    *)
(* payload and what its signature segment was computed over.  Time is in   *)
(* whole seconds, as both libraries use floor(Date.now() / 1000).          *)
(***************************************************************************)
EXTENDS Integers, Sequences, FiniteSets, TLC

VARIABLES
    now,      \* the clock, seconds since the epoch of the run
    ticks,    \* number of clock steps taken (bounds the run)
    issued,   \* the session tokens handed out, each with the user it was made for
    req,      \* the request last handled
    resp,     \* what the middleware answered to req
    ident,    \* what the session extractors returned for req
    jar,      \* the cookies the session extractors parsed out of req
    env,      \* process.env.JWT_SECRET of the running process
    db,       \* the user table, each user with its credential record (aspNetUser)
    regs,     \* the POST /api/auth/register requests, each with where it stands
    api,      \* the last response of POST /api/auth/login or GET /api/auth/verify
    loggedOut, \* the sessions whose user has logged out
    currentUser, \* AuthProvider: the state user (the id of the user, or null)
    isLoading,   \* AuthProvider: the state isLoading
    hasMounted,  \* AuthProvider: the state hasMounted
    ctl,         \* AuthProvider: where verifySession and the logout calls stand
    isMounted,   \* ProtectedLayoutContent: the state isMounted
    router,      \* ProtectedLayoutContent: its second effect and where it sent the browser
    prisma,      \* the tables of the workspaces, projects, tasks and comments
    reply,       \* the last response of a resource route
    taskRequirement, \* the table of the requirements of the tasks
    posts,       \* the POST requests for requirements, each with where it stands
    columns,     \* the task board: the state columns, the tasks of each column
    taskStatus,  \* the status of each task of the board in the database
    drags        \* the calls of handleDragEnd, each with where its PATCH stands

\* the variables of the request handling: clock, sessions, request in hand
gateVars == <<now, ticks, issued, req, resp, ident, jar>>

\* the variables the request handling leaves alone
\* the state of the AuthProvider in the browser
clientVars == <<currentUser, isLoading, hasMounted, ctl>>

\* the state of the protected layout in the browser
layoutVars == <<isMounted, router>>

\* the variables of the pages and of the resource routes
\* the tables of the resources and the last answer of their routes
storeVars == <<prisma, reply>>

\* the requirements of the tasks and the requests that create them
reqVars == <<taskRequirement, posts>>

\* the task board in the browser and the status of its tasks on the server
boardVars == <<columns, taskStatus, drags>>

appVars == <<layoutVars, storeVars, reqVars, boardVars>>

others == <<env, db, regs, api, loggedOut, clientVars, appVars>>

\* the variables the account routes leave alone, the clock and the requests
\* of the gate apart
outsideAccounts == <<env, loggedOut, clientVars, appVars>>

vars == <<gateVars, others>>

\* the variables of the sessions and of the account routes
authVars == <<gateVars, env, db, regs, api, loggedOut>>

----------------------------------------------------------------------------
(* Bounds of the model *)

MaxTicks == 3

MaxIssued == 1

\* pairs in a Cookie header of the cookie-parsing runs
MaxPairs == 2

\* register requests of a run of the account routes
MaxRegs == 2

\* calls of logout() in a run of the AuthProvider
MaxLogouts == 2

\* rows a table of the resource routes may hold in a run
MaxRows == 1

\* POST requests for requirements in a run
MaxPosts == 3

\* calls of handleDragEnd in a run of the board
MaxDrags == 2

----------------------------------------------------------------------------
(* Program constants *)

\* expiresIn: '24h' in createToken, in seconds
ExpiresIn == 86400

\* expiresIn: '24h' in the login route, in seconds
LoginExpiresIn == 86400

\* process.env.JWT_SECRET, read by every signer and verifier
JWT_SECRET == env

\* the value the deployment gives the secret
SecretValue == "jwt-secret"

\* the cookie that carries the session token
AuthCookie == "auth-token"

----------------------------------------------------------------------------
(* Paths *)

StartsWith(s, p) == Len(p) <= Len(s) /\ SubSeq(s, 1, Len(p)) = p

publicRoutes ==
    { <<"/">>,
      <<"/", "login">>,
      <<"/", "register">>,
      <<"/", "api", "/", "auth", "/", "login">>,
      <<"/", "api", "/", "auth", "/", "register">>,
      <<"/", "api", "/", "auth", "/", "logout">>,
      <<"/", "api", "/", "health">> }

protectedRoutes ==
    { <<"/", "dashboard">>,
      <<"/", "workspace">>,
      <<"/", "project">>,
      <<"/", "profile">>,
      <<"/", "settings">> }

LoginPath == <<"/", "login">>

\* publicRoutes.some(route => pathname === route || pathname.startsWith(route + '/'))
isPublicRoute(pathname) ==
    \E route \in publicRoutes :
        pathname = route \/ StartsWith(pathname, route \o <<"/">>)

\* a matching that takes the entries as whole paths
isProtectedRouteExact(pathname) ==
    \E route \in protectedRoutes : pathname = route

\* protectedRoutes.some(route => pathname.startsWith(route))
isProtectedRoute(pathname) ==
    \E route \in protectedRoutes : StartsWith(pathname, route)

\* config.matcher: '/((?!api|_next/static|_next/image|favicon.ico).*)'
matcherExcluded ==
    { <<"api">>, <<"_next", "/", "static">>, <<"_next", "/", "image">>, <<"favicon.ico">> }

\* a matcher that leaves no path out
configMatcherAll(pathname) ==
    /\ Len(pathname) >= 1
    /\ pathname[1] = "/"

configMatcher(pathname) ==
    /\ Len(pathname) >= 1
    /\ pathname[1] = "/"
    /\ ~ \E x \in matcherExcluded : StartsWith(SubSeq(pathname, 2, Len(pathname)), x)

----------------------------------------------------------------------------
(* Tokens *)

\* JSON.stringify drops the keys whose value is undefined
Undefined == "<undefined>"

DefinedKeys(obj) == { k \in DOMAIN obj : obj[k] # Undefined }

Stringify(obj) == [ k \in DefinedKeys(obj) |-> obj[k] ]

NoSignature == [key |-> "", alg |-> "", payload |-> <<>>]

\* HMAC over header and payload with a key
Hmac(key, alg, payload) == [key |-> key, alg |-> alg, payload |-> payload]

\* jwt.sign(payload, secret, {expiresIn, algorithm: 'HS256'}) at time t:
\* adds iat = t and exp = iat + expiresIn, signs header.payload
JwtSign(payload, secret, expiresIn, t) ==
    LET claims == Stringify(payload)
        body == [ k \in DOMAIN claims \cup {"iat", "exp"} |->
                    IF k = "iat" THEN t
                    ELSE IF k = "exp" THEN t + expiresIn
                    ELSE claims[k] ]
    IN  [form |-> "jws", alg |-> "HS256", payload |-> body,
         sig |-> Hmac(secret, "HS256", body)]

\* a payload that leaves the display name out
createTokenNameless(user, t) ==
    JwtSign([userId |-> user.id, email |-> user.email], JWT_SECRET, ExpiresIn, t)

\* createToken(user): payload {userId: user.id, email: user.email, name: user.name}
createToken(user, t) ==
    JwtSign([userId |-> user.id, email |-> user.email, name |-> user.name],
            JWT_SECRET, ExpiresIn, t)

\* the token generation of the login route for the user record found
loginToken(user, t) ==
    JwtSign([userId |-> user.id, email |-> user.email, name |-> user.name],
            JWT_SECRET, LoginExpiresIn, t)

\* the algorithms an HMAC secret may verify
HmacAlgorithms == {"HS256", "HS384", "HS512"}

SignatureVerifies(token, secret) ==
    token.sig = Hmac(secret, token.alg, token.payload)

Rejected(kind) == [ok |-> FALSE, error |-> kind, payload |-> <<>>]

Accepted(payload) == [ok |-> TRUE, error |-> "", payload |-> payload]

\* new TextEncoder().encode(text): the bytes of the text; of undefined, no byte
TextEncoderEncode(text) == IF text = Undefined THEN "" ELSE text

\* a verifier that still accepts in the second of the expiry
jwtVerifyLenient(token, secret, t) ==
    IF token.form # "jws" THEN Rejected("JWSInvalid")
    ELSE IF token.alg \notin HmacAlgorithms THEN Rejected("JOSENotSupported")
    ELSE IF ~SignatureVerifies(token, secret)
        THEN Rejected("JWSSignatureVerificationFailed")
    ELSE IF "nbf" \in DOMAIN token.payload /\ token.payload.nbf > t
        THEN Rejected("JWTClaimValidationFailed")
    ELSE IF "exp" \in DOMAIN token.payload /\ token.payload.exp < t
        THEN Rejected("JWTExpired")
    ELSE Accepted(token.payload)

\* jose: jwtVerify(token, secret) at time t, no options (no clock tolerance)
jwtVerify(token, secret, t) ==
    IF token.form # "jws" THEN Rejected("JWSInvalid")
    ELSE IF token.alg \notin HmacAlgorithms THEN Rejected("JOSENotSupported")
    ELSE IF ~SignatureVerifies(token, secret)
        THEN Rejected("JWSSignatureVerificationFailed")
    ELSE IF "nbf" \in DOMAIN token.payload /\ token.payload.nbf > t
        THEN Rejected("JWTClaimValidationFailed")
    ELSE IF "exp" \in DOMAIN token.payload /\ token.payload.exp <= t
        THEN Rejected("JWTExpired")
    ELSE Accepted(token.payload)

\* a verifier that still accepts in the second of the expiry
jwtVerifySyncLenient(token, secret, t) ==
    IF token.form # "jws" THEN Rejected("jwt malformed")
    ELSE IF token.sig = NoSignature THEN Rejected("jwt signature is required")
    ELSE IF token.alg \notin HmacAlgorithms THEN Rejected("invalid algorithm")
    ELSE IF ~SignatureVerifies(token, secret) THEN Rejected("invalid signature")
    ELSE IF "nbf" \in DOMAIN token.payload /\ token.payload.nbf > t
        THEN Rejected("jwt not active")
    ELSE IF "exp" \in DOMAIN token.payload /\ t > token.payload.exp
        THEN Rejected("jwt expired")
    ELSE Accepted(token.payload)

\* jsonwebtoken: jwt.verify(token, secret) at time t, no options
jwtVerifySync(token, secret, t) ==
    IF token.form # "jws" THEN Rejected("jwt malformed")
    ELSE IF token.sig = NoSignature THEN Rejected("jwt signature is required")
    ELSE IF secret = Undefined THEN Rejected("secret or public key must be provided")
    ELSE IF token.alg \notin HmacAlgorithms THEN Rejected("invalid algorithm")
    ELSE IF ~SignatureVerifies(token, secret) THEN Rejected("invalid signature")
    ELSE IF "nbf" \in DOMAIN token.payload /\ token.payload.nbf > t
        THEN Rejected("jwt not active")
    ELSE IF "exp" \in DOMAIN token.payload /\ t >= token.payload.exp
        THEN Rejected("jwt expired")
    ELSE Accepted(token.payload)

----------------------------------------------------------------------------
(* Requests and cookies *)

\* cookie values that are no compact JWS
UndefinedValue == [form |-> "undefined"]

EmptyValue == [form |-> "empty"]

Garbage == [form |-> "garbage"]

\* JavaScript !value for a string or undefined
Falsy(value) == value.form \in {"undefined", "empty"}

\* A Cookie header is absent or a text, held as its ';'-separated pairs, each
\* pair as the parts between its '=' signs: <<name>>, <<name, value>>, ...
NoCookieHeader == [present |-> FALSE, pairs |-> <<>>]

CookieHeader(pairs) == [present |-> TRUE, pairs |-> pairs]

\* cookieHeader.split(';').reduce((acc, cookie) => { const [key, value] =
\* cookie.trim().split('='); acc[key] = value; return acc }, {})
RECURSIVE reduceCookies(_)
reduceCookies(pairs) ==
    IF pairs = <<>> THEN [k \in {} |-> UndefinedValue]
    ELSE LET n == Len(pairs)
             parts == pairs[n]
             key == parts[1]
             value == IF Len(parts) >= 2 THEN parts[2] ELSE UndefinedValue
         IN  (key :> value) @@ reduceCookies(SubSeq(pairs, 1, n - 1))

\* the object the reduce starts from: no cookie
NoCookies == [k \in {} |-> UndefinedValue]

\* the cookies object an extractor builds before it reads cookies['auth-token']:
\* none when the request has no Cookie header
parseCookies(request) ==
    IF ~request.cookie.present \/ request.cookie.pairs = <<>> THEN NoCookies
    ELSE reduceCookies(request.cookie.pairs)

\* cookies['auth-token'] of the extractors
cookieToken(request) ==
    LET cookies == reduceCookies(request.cookie.pairs)
    IN  IF AuthCookie \in DOMAIN cookies THEN cookies[AuthCookie] ELSE UndefinedValue

\* request.cookies.get('auth-token')?.value of the middleware: the pair is split
\* at its first '=', a pair without '=' has the value "true", the last pair of a
\* name wins
RECURSIVE cookiesGet(_, _)
cookiesGet(pairs, name) ==
    IF pairs = <<>> THEN UndefinedValue
    ELSE LET n == Len(pairs)
             parts == pairs[n]
         IN  IF parts[1] = name
             THEN IF Len(parts) = 2 THEN parts[2] ELSE Garbage
             ELSE cookiesGet(SubSeq(pairs, 1, n - 1), name)

Null == "<null>"

\* an extractor that turns away the token of a user who has logged out
getUserIdFromTokenRevoking(request, t) ==
    IF ~request.cookie.present \/ request.cookie.pairs = <<>> THEN Null
    ELSE LET token == cookieToken(request)
         IN  IF Falsy(token) THEN Null
             ELSE IF \E s \in loggedOut : s.token = token THEN Null
             ELSE LET r == jwtVerify(token, TextEncoderEncode(JWT_SECRET), t)
                  IN  IF ~r.ok THEN Null
                      ELSE IF "userId" \in DOMAIN r.payload THEN r.payload.userId
                      ELSE Undefined

\* getUserIdFromToken(request): jose
getUserIdFromToken(request, t) ==
    IF ~request.cookie.present \/ request.cookie.pairs = <<>> THEN Null
    ELSE LET token == cookieToken(request)
         IN  IF Falsy(token) THEN Null
             ELSE LET r == jwtVerify(token, TextEncoderEncode(JWT_SECRET), t)
                  IN  IF ~r.ok THEN Null
                      ELSE IF "userId" \in DOMAIN r.payload THEN r.payload.userId
                      ELSE Undefined

\* getUserIdFromTokenSync(request): jsonwebtoken
getUserIdFromTokenSync(request, t) ==
    IF ~request.cookie.present \/ request.cookie.pairs = <<>> THEN Null
    ELSE LET token == cookieToken(request)
         IN  IF Falsy(token) THEN Null
             ELSE LET r == jwtVerifySync(token, JWT_SECRET, t)
                  IN  IF ~r.ok THEN Null
                      ELSE IF "userId" \in DOMAIN r.payload THEN r.payload.userId
                      ELSE Undefined

NoPayload == [found |-> FALSE, payload |-> <<>>]

\* getToken(request): the verified payload, or null
getToken(request, t) ==
    IF ~request.cookie.present \/ request.cookie.pairs = <<>> THEN NoPayload
    ELSE LET token == cookieToken(request)
         IN  IF Falsy(token) THEN NoPayload
             ELSE LET r == jwtVerify(token, TextEncoderEncode(JWT_SECRET), t)
                  IN  IF ~r.ok THEN NoPayload
                      ELSE [found |-> TRUE, payload |-> r.payload]

----------------------------------------------------------------------------
(* The middleware *)

NoLocation == [pathname |-> <<>>, searchParams |-> {}]

\* NextResponse.next(): the request goes on to its handler with the request
\* headers it came with; the response carries no extra header yet
NextResponseNext(request) ==
    [kind |-> "next", location |-> NoLocation, headers |-> {},
     cookiesDeleted |-> {}, handlerHeaders |-> request.headers]

\* NextResponse.redirect(url): no handler runs
NextResponseRedirect(url) ==
    [kind |-> "redirect", location |-> url, headers |-> {},
     cookiesDeleted |-> {}, handlerHeaders |-> {}]

\* response.headers.set(name, value)
HeadersSet(headers, name, value) ==
    { h \in headers : h[1] # name } \cup { <<name, value>> }

\* a string claim written into a header
AsString(payload, key) == IF key \in DOMAIN payload THEN payload[key] ELSE Undefined

\* a redirect to the login page that forgets where the request was going
noTokenResponseBare(request) ==
    NextResponseRedirect([pathname |-> LoginPath, searchParams |-> {}])

\* no token: redirect to /login?redirect=<pathname>
noTokenResponse(request) ==
    NextResponseRedirect(
        [pathname |-> LoginPath,
         searchParams |-> { <<"redirect", request.pathname>> }])

\* the token verified: NextResponse.next() with the identity set on the
\* headers of the response
verifiedResponse(request, payload) ==
    LET response == NextResponseNext(request) IN
    [response EXCEPT !.headers =
        HeadersSet(HeadersSet(@, "x-user-id", AsString(payload, "userId")),
                   "x-user-email", AsString(payload, "email"))]

\* a redirect that deletes the cookie and keeps the path for the return
invalidTokenResponseReturn(request) ==
    LET response ==
            NextResponseRedirect(
                [pathname |-> LoginPath,
                 searchParams |-> { <<"redirect", request.pathname>> }])
    IN  [response EXCEPT !.cookiesDeleted = @ \cup {AuthCookie}]

\* a redirect that leaves the invalid cookie with the client
invalidTokenResponseKeep(request) ==
    NextResponseRedirect([pathname |-> LoginPath, searchParams |-> {}])

\* jwtVerify threw: redirect to /login and delete the cookie
invalidTokenResponse(request) ==
    LET response ==
            NextResponseRedirect([pathname |-> LoginPath, searchParams |-> {}])
    IN  [response EXCEPT !.cookiesDeleted = @ \cup {AuthCookie}]

\* a middleware that verifies the cookie before it classifies the path
middlewareVerifyFirst(request, t) ==
    LET pathname == request.pathname
        token == cookiesGet(request.cookie.pairs, AuthCookie)
    IN  IF ~Falsy(token) /\ ~jwtVerify(token, TextEncoderEncode(JWT_SECRET), t).ok
        THEN invalidTokenResponse(request)
        ELSE IF isPublicRoute(pathname) THEN NextResponseNext(request)
        ELSE IF ~isProtectedRoute(pathname) THEN NextResponseNext(request)
        ELSE IF Falsy(token) THEN noTokenResponse(request)
        ELSE verifiedResponse(request, jwtVerify(token, TextEncoderEncode(JWT_SECRET), t).payload)

middleware(request, t) ==
    LET pathname == request.pathname IN
    IF isPublicRoute(pathname) THEN NextResponseNext(request)
    ELSE IF ~isProtectedRoute(pathname) THEN NextResponseNext(request)
    ELSE LET token == cookiesGet(request.cookie.pairs, AuthCookie) IN
         IF Falsy(token) THEN noTokenResponse(request)
         ELSE LET r == jwtVerify(token, TextEncoderEncode(JWT_SECRET), t) IN
              IF r.ok THEN verifiedResponse(request, r.payload)
              ELSE invalidTokenResponse(request)

\* a request whose path config.matcher does not match never enters the middleware
NotIntercepted(request) ==
    [kind |-> "skipped", location |-> NoLocation, headers |-> {},
     cookiesDeleted |-> {}, handlerHeaders |-> request.headers]

edge(request, t) ==
    IF configMatcher(request.pathname) THEN middleware(request, t)
    ELSE NotIntercepted(request)

----------------------------------------------------------------------------
(* Users and the inputs of the environment *)

\* user records of the database
DbUsers ==
    { [id |-> "u1", email |-> "alice@example.com", name |-> "Alice"] }

\* arguments of createToken: {id, email, name?}
TokenUsers ==
    { [id |-> "u1", email |-> "alice@example.com", name |-> "Alice"],
      [id |-> "u2", email |-> "bob@example.com", name |-> Undefined] }

\* the clock advances by a second or by a second less than a token's lifetime
TickSteps == {1, ExpiresIn - 1}

\* what a client can make of a token it holds without the secret
ExtendExpiry(token) == [token EXCEPT !.payload.exp = @ + ExpiresIn]

CorruptSignature(token) == [token EXCEPT !.sig.key = "corrupted"]

StripSignature(token) == [token EXCEPT !.alg = "none", !.sig = NoSignature]

\* a token the client signs itself, with a key of its own
SelfSigned(t) ==
    JwtSign([userId |-> "u1", email |-> "alice@example.com", name |-> "Alice"],
            "client-key", ExpiresIn, t)

\* the tokens handed out
IssuedTokens == { s.token : s \in issued }

CookieValues ==
    {EmptyValue, Garbage, SelfSigned(now)}
        \cup IssuedTokens
        \cup { ExtendExpiry(tok) : tok \in IssuedTokens }
        \cup { CorruptSignature(tok) : tok \in IssuedTokens }
        \cup { StripSignature(tok) : tok \in IssuedTokens }

CookieHeaders ==
    {NoCookieHeader, CookieHeader(<< <<"theme", Garbage>> >>)}
        \cup { CookieHeader(<< <<AuthCookie, v>> >>) : v \in CookieValues }

\* request headers a client may send along
ClientHeaders ==
    { {}, { <<"x-user-id", "u2">>, <<"x-user-email", "bob@example.com">> } }

\* the paths requested: every route itself, and texts around the routes
Paths ==
    publicRoutes \cup protectedRoutes
        \cup { <<"/", "login", "/", "x">>, <<"/", "login", "x">>,
               <<"/", "/", "x">>,
               <<"/", "dashboard", "/", "x">>, <<"/", "dashboard", "x">>,
               <<"/", "about">>, <<"/", "api", "/", "tasks">>,
               <<"/", "_next", "/", "static", "/", "x">> }

ApiPath == <<"/", "api", "/", "auth", "/", "verify">>

NoRequest == [pathname |-> <<>>, cookie |-> NoCookieHeader, headers |-> {}]

NoResponse ==
    [kind |-> "none", location |-> NoLocation, headers |-> {},
     cookiesDeleted |-> {}, handlerHeaders |-> {}]

NoIdent ==
    [called |-> FALSE, userId |-> Null, userIdSync |-> Null, token |-> NoPayload]

----------------------------------------------------------------------------
(* The state machine *)

\* AuthProvider before its first effect: useState(null), useState(true),
\* useState(false); verifySession not started, logout not called
ClientInit ==
    /\ currentUser = Null
    /\ isLoading = TRUE
    /\ hasMounted = FALSE
    /\ ctl = [pc |-> "notStarted", deps |-> <<>>, started |-> 0, trail |-> <<>>,
              posting |-> 0, logouts |-> 0, resolved |-> 0,
              failed |-> <<>>, thrown |-> <<>>]

\* the pages and the resource routes at their start.  ProtectedLayoutContent
\* before its first effect: useState(false), no effect has run, the browser is
\* on the protected page it asked for.  The resource routes: empty tables,
\* nothing answered yet.  The requirements: none
\* stored, no request under way.  The board: loaded, every task in the column
\* of its status, which is 0 (To Do); nothing dragged
AppInit ==
    /\ isMounted = FALSE
    /\ router = [deps |-> <<>>, pathname |-> "/dashboard"]
    /\ prisma = [workSpace |-> {}, workSpaceUser |-> {}, project |-> {},
                 userProject |-> {}, task |-> {}, taskProject |-> {}, comment |-> {}]
    /\ reply = [route |-> "none", cookie |-> NoCookieHeader, target |-> "",
                status |-> 0, error |-> "", rows |-> {}]
    /\ taskRequirement = {}
    /\ posts = [i \in 1..MaxPosts |->
                  [pc |-> "idle", status |-> 0, taskId |-> "", order |-> 0,
                   given |-> FALSE, createdBy |-> Null]]
    /\ columns = [c \in {"0", "1", "2"} |-> IF c = "0" THEN <<"t1", "t2">> ELSE <<>>]
    /\ taskStatus = [t \in {"t1", "t2"} |-> 0]
    /\ drags = <<>>

\* no request in hand, no session yet
GateInit ==
    /\ now = 0
    /\ ticks = 0
    /\ issued = {}
    /\ req = NoRequest
    /\ resp = NoResponse
    /\ ident = NoIdent
    /\ jar = NoCookies

\* the account routes have not been called
NoReg == [pc |-> "none", body |-> [fullName |-> "", email |-> "", password |-> ""],
          status |-> 0]

NoApi == [route |-> "none", input |-> <<>>, status |-> 0, body |-> <<>>,
          cookie |-> UndefinedValue]

AccountsIdle ==
    /\ db = {}
    /\ regs = [i \in 1..MaxRegs |-> NoReg]
    /\ api = NoApi

Init ==
    /\ GateInit
    /\ env = SecretValue
    /\ AccountsIdle
    /\ loggedOut = {}
    /\ ClientInit
    /\ AppInit

Idle == req = NoRequest

Tick(d) ==
    /\ Idle
    /\ ticks < MaxTicks
    /\ now' = now + d
    /\ ticks' = ticks + 1
    /\ UNCHANGED <<issued, req, resp, ident, jar>>
    /\ UNCHANGED others

\* POST /api/auth/login with the credentials of user: the token set as cookie
Login(user) ==
    /\ Idle
    /\ Cardinality(issued) < MaxIssued
    /\ JWT_SECRET # Undefined
    /\ issued' = issued \cup {[user |-> user, token |-> loginToken(user, now)]}
    /\ UNCHANGED <<now, ticks, req, resp, ident, jar>>
    /\ UNCHANGED others

CreateToken(user) ==
    /\ Idle
    /\ Cardinality(issued) < MaxIssued
    /\ JWT_SECRET # Undefined
    /\ issued' = issued \cup {[user |-> user, token |-> createToken(user, now)]}
    /\ UNCHANGED <<now, ticks, req, resp, ident, jar>>
    /\ UNCHANGED others

\* a page request arrives at the edge
PageRequest(request) ==
    /\ Idle
    /\ req' = request
    /\ resp' = edge(request, now)
    /\ ident' = NoIdent
    /\ jar' = NoCookies
    /\ UNCHANGED <<now, ticks, issued>>
    /\ UNCHANGED others

\* a route handler asks the session extractors who sent the request
ApiRequest(request) ==
    /\ Idle
    /\ req' = request
    /\ resp' = NoResponse
    /\ ident' = [called |-> TRUE,
                 userId |-> getUserIdFromToken(request, now),
                 userIdSync |-> getUserIdFromTokenSync(request, now),
                 token |-> getToken(request, now)]
    /\ jar' = parseCookies(request)
    /\ UNCHANGED <<now, ticks, issued>>
    /\ UNCHANGED others

\* the response is sent; the next request can be taken
Complete ==
    /\ ~Idle
    /\ req' = NoRequest
    /\ resp' = NoResponse
    /\ ident' = NoIdent
    /\ jar' = NoCookies
    /\ UNCHANGED <<now, ticks, issued>>
    /\ UNCHANGED others

Next ==
    \/ Complete
    \/ \E d \in TickSteps : Tick(d)
    \/ \E user \in DbUsers : Login(user)
    \/ \E user \in TokenUsers : CreateToken(user)
    \/ \E pathname \in Paths, cookie \in CookieHeaders, headers \in ClientHeaders :
           PageRequest([pathname |-> pathname, cookie |-> cookie, headers |-> headers])
    \/ \E cookie \in CookieHeaders :
           ApiRequest([pathname |-> ApiPath, cookie |-> cookie, headers |-> {}])

Spec == Init /\ [][Next]_vars

----------------------------------------------------------------------------
(* Cookie headers of any shape: the extractors on headers with several pairs, *)
(* pairs without '=', pairs with more than one '=' and pairs without name     *)

\* the pairs a header is made of, each as the parts between its '=' signs
CookiePairs ==
    { <<AuthCookie>>, <<AuthCookie, Garbage>>,
      <<"theme">>, <<"theme", Garbage>>, <<"theme", Garbage, Garbage>>,
      <<"">>, <<"", Garbage>> }
        \cup { <<AuthCookie, tok>> : tok \in IssuedTokens }
        \cup { <<AuthCookie, tok, EmptyValue>> : tok \in IssuedTokens }
        \cup { <<AuthCookie, tok, Garbage>> : tok \in IssuedTokens }

\* the headers of up to MaxPairs pairs; the browser holds one auth-token
\* cookie (the login route sets it for path '/'), so at most one pair is an
\* auth-token pair with a value
MixedCookieHeaders ==
    { CookieHeader(pairs) :
        pairs \in { ps \in UNION { [1..n -> CookiePairs] : n \in 1..MaxPairs } :
                      Cardinality({ i \in DOMAIN ps :
                          ps[i][1] = AuthCookie /\ Len(ps[i]) >= 2 }) <= 1 } }

NextCookies ==
    \/ Complete
    \/ \E user \in DbUsers : Login(user)
    \/ \E cookie \in MixedCookieHeaders :
           ApiRequest([pathname |-> ApiPath, cookie |-> cookie, headers |-> {}])

SpecCookies == Init /\ [][NextCookies]_vars

----------------------------------------------------------------------------
(* The account routes: POST /api/auth/register, POST /api/auth/login and      *)
(* GET /api/auth/verify over the user table.                                  *)

\* String.prototype.toLowerCase on the texts of the model
toLowerCase(text) ==
    IF text = "Alice@Example.com" THEN "alice@example.com" ELSE text

\* String.prototype.length of the texts of the model
StringLength(text) ==
    CASE text = "" -> 0
      [] text = "A" -> 1
      [] text = "Al" -> 2
      [] text = "five5" -> 5
      [] text \in {"secret", "wrong!"} -> 6
      [] OTHER -> 8

\* z.string().email(): the text has the form local@domain
IsEmail(text) ==
    text \in {"Alice@Example.com", "alice@example.com", "carol@example.com"}

\* registerSchema.parse(body) does not throw
registerSchemaAccepts(body) ==
    /\ StringLength(body.fullName) >= 2
    /\ IsEmail(body.email)
    /\ StringLength(body.password) >= 6

\* loginSchema.parse(body) does not throw
loginSchemaAccepts(body) ==
    /\ IsEmail(body.email)
    /\ StringLength(body.password) >= 1

\* bcrypt.hash(password, 12) and bcrypt.compare(password, hash)
bcryptHash(password) == <<"bcrypt", password>>

bcryptCompare(password, hash) == hash = <<"bcrypt", password>>

\* a user row without a row in AspNetUser, and the row register creates
NoAspNetUser == [present |-> FALSE, passwordHash |-> <<>>]

AspNetUser(passwordHash) == [present |-> TRUE, passwordHash |-> passwordHash]

\* db.user.findUnique({where: {email}, include: {aspNetUser: true}})
findUniqueByEmail(users, email) == { u \in users : u.email = email }

\* db.user.findUnique({where: {id}})
findUniqueById(users, id) == { u \in users : u.id = id }

\* the id the database gives a new user row
IdPool == <<"u1", "u2", "u3", "u4">>

NewId(users) == IdPool[Cardinality({ u \in users : u.id \in {"u1", "u2", "u3", "u4"} }) + 1]

\* the user object of a response body (createdAt left out)
UserBody(user) == [id |-> user.id, email |-> user.email, name |-> user.name]

ErrorBody(text) == [error |-> text]

\* register, up to the first await after the check: validation, then the
\* lookup of the email; the request that passes goes on to hash the password
registerCheck(body, users) ==
    IF ~registerSchemaAccepts(body) THEN [pc |-> "done", body |-> body, status |-> 400]
    ELSE IF findUniqueByEmail(users, toLowerCase(body.email)) # {}
        THEN [pc |-> "done", body |-> body, status |-> 409]
    ELSE [pc |-> "hashing", body |-> body, status |-> 0]

\* prisma.user.create inside db.$transaction: the email column is unique
\* (findUnique is given it as the key), so a second row of an email throws
createThrows(body, users) == findUniqueByEmail(users, toLowerCase(body.email)) # {}

\* the rows the transaction of register adds
registerRows(body, users) ==
    { [id |-> NewId(users), email |-> toLowerCase(body.email), name |-> body.fullName,
       aspNetUser |-> AspNetUser(bcryptHash(body.password))] }

\* a login that answers 404 to an email it does not know
loginPOSTTelling(body, users, t) ==
    IF ~loginSchemaAccepts(body)
        THEN [route |-> "login", input |-> body, status |-> 400,
              body |-> ErrorBody("Validation failed"), cookie |-> UndefinedValue]
    ELSE LET found == findUniqueByEmail(users, toLowerCase(body.email)) IN
         IF found = {}
            THEN [route |-> "login", input |-> body, status |-> 404,
                  body |-> ErrorBody("User not found"), cookie |-> UndefinedValue]
         ELSE LET user == CHOOSE u \in found : TRUE IN
              IF ~user.aspNetUser.present
                     \/ ~bcryptCompare(body.password, user.aspNetUser.passwordHash)
                 THEN [route |-> "login", input |-> body, status |-> 401,
                       body |-> ErrorBody("Invalid email or password"),
                       cookie |-> UndefinedValue]
              ELSE [route |-> "login", input |-> body, status |-> 200,
                    body |-> UserBody(user), cookie |-> loginToken(UserBody(user), t)]

\* POST /api/auth/login: the response, with the cookie it sets
loginPOST(body, users, t) ==
    IF ~loginSchemaAccepts(body)
        THEN [route |-> "login", input |-> body, status |-> 400,
              body |-> ErrorBody("Validation failed"), cookie |-> UndefinedValue]
    ELSE LET found == findUniqueByEmail(users, toLowerCase(body.email)) IN
         IF found = {} \/ \E u \in found : ~u.aspNetUser.present
            THEN [route |-> "login", input |-> body, status |-> 401,
                  body |-> ErrorBody("Invalid email or password"),
                  cookie |-> UndefinedValue]
         ELSE LET user == CHOOSE u \in found : TRUE IN
              IF ~bcryptCompare(body.password, user.aspNetUser.passwordHash)
                 THEN [route |-> "login", input |-> body, status |-> 401,
                       body |-> ErrorBody("Invalid email or password"),
                       cookie |-> UndefinedValue]
              ELSE IF JWT_SECRET = Undefined
                 THEN [route |-> "login", input |-> body, status |-> 500,
                       body |-> ErrorBody("Internal server error"),
                       cookie |-> UndefinedValue]
              ELSE [route |-> "login", input |-> body, status |-> 200,
                    body |-> UserBody(user), cookie |-> loginToken(UserBody(user), t)]

\* GET /api/auth/verify: the response
verifyGET(request, users, t) ==
    LET token == getToken(request, t) IN
    IF ~token.found
        THEN [route |-> "verify", input |-> request.cookie, status |-> 401,
              body |-> ErrorBody("Unauthorized"), cookie |-> UndefinedValue]
    ELSE LET userId == AsString(token.payload, "sub") IN
         IF userId = Undefined
            \* findUnique({where: {id: undefined}}) throws a validation error
            THEN [route |-> "verify", input |-> request.cookie, status |-> 500,
                  body |-> ErrorBody("Internal server error"), cookie |-> UndefinedValue]
         ELSE IF findUniqueById(users, userId) = {}
            THEN [route |-> "verify", input |-> request.cookie, status |-> 404,
                  body |-> ErrorBody("User not found"), cookie |-> UndefinedValue]
         ELSE [route |-> "verify", input |-> request.cookie, status |-> 200,
               body |-> UserBody(CHOOSE u \in findUniqueById(users, userId) : TRUE),
               cookie |-> UndefinedValue]

\* the request bodies sent to register and to login
Emails ==
    { "Alice@Example.com", "alice@example.com", "carol@example.com", "alice" }

Passwords == { "secret", "wrong!", "five5" }

RegisterBodies ==
    { [fullName |-> "Al", email |-> e, password |-> "secret"] : e \in Emails }
        \cup { [fullName |-> "A", email |-> "alice@example.com", password |-> "secret"],
               [fullName |-> "Al", email |-> "alice@example.com", password |-> "five5"] }

LoginBodies ==
    { [email |-> e, password |-> p] : e \in Emails, p \in Passwords \cup {""} }

\* a user row that has no credential record
Carol ==
    [id |-> "c0", email |-> "carol@example.com", name |-> "Carol",
     aspNetUser |-> NoAspNetUser]

InitAccounts ==
    /\ GateInit
    /\ env = SecretValue
    /\ db \in { {}, {Carol} }
    /\ regs = [i \in 1..MaxRegs |-> NoReg]
    /\ api = NoApi
    /\ loggedOut = {}
    /\ ClientInit
    /\ AppInit

\* a register request arrives: validation and the check of the email
RegisterArrives(i, body) ==
    /\ regs[i].pc = "none"
    /\ \A j \in 1..(i - 1) : regs[j].pc # "none"
    /\ regs' = [regs EXCEPT ![i] = registerCheck(body, db)]
    /\ UNCHANGED <<db, api, gateVars>>
    /\ UNCHANGED outsideAccounts

\* the request that passed the check runs its transaction and answers
RegisterCreates(i) ==
    /\ regs[i].pc = "hashing"
    /\ IF createThrows(regs[i].body, db)
       THEN /\ regs' = [regs EXCEPT ![i].pc = "done", ![i].status = 500]
            /\ db' = db
       ELSE /\ regs' = [regs EXCEPT ![i].pc = "done", ![i].status = 201]
            /\ db' = db \cup registerRows(regs[i].body, db)
    /\ UNCHANGED <<api, gateVars>>
    /\ UNCHANGED outsideAccounts

\* POST /api/auth/login
LoginRoute(body) ==
    /\ api' = loginPOST(body, db, now)
    /\ issued' = IF api'.status = 200
                 THEN issued \cup {[user |-> api'.body, token |-> api'.cookie]}
                 ELSE issued
    /\ UNCHANGED <<db, regs, now, ticks, req, resp, ident, jar>>
    /\ UNCHANGED outsideAccounts

\* GET /api/auth/verify with a cookie the client holds or makes up
VerifyRoute(cookie) ==
    /\ api' = verifyGET([pathname |-> ApiPath, cookie |-> cookie, headers |-> {}],
                        db, now)
    /\ UNCHANGED <<db, regs, gateVars>>
    /\ UNCHANGED outsideAccounts

NextAccounts ==
    \/ \E i \in 1..MaxRegs, body \in RegisterBodies : RegisterArrives(i, body)
    \/ \E i \in 1..MaxRegs : RegisterCreates(i)
    \/ \E body \in LoginBodies : LoginRoute(body)
    \/ \E cookie \in CookieHeaders : VerifyRoute(cookie)

SpecAccounts == InitAccounts /\ [][NextAccounts]_vars

----------------------------------------------------------------------------
(* Sessions and logout: the verifiers on the tokens of users who logged out   *)

\* logout() of the client: POST /api/auth/logout, then the client forgets the
\* user.  The server answers with an expired cookie; the token itself stays
\* what it was, with whoever holds a copy of it.
Logout(s) ==
    /\ Idle
    /\ s \notin loggedOut
    /\ loggedOut' = loggedOut \cup {s}
    /\ UNCHANGED <<gateVars, env, db, regs, api, clientVars, appVars>>

\* the pages asked for in the runs with logout
SessionPaths == { <<"/", "dashboard">>, <<"/", "login">> }

NextSession ==
    \/ Complete
    \/ \E d \in TickSteps : Tick(d)
    \/ \E user \in DbUsers : Login(user)
    \/ \E user \in TokenUsers : CreateToken(user)
    \/ \E s \in issued : Logout(s)
    \/ \E pathname \in SessionPaths, cookie \in CookieHeaders :
           PageRequest([pathname |-> pathname, cookie |-> cookie, headers |-> {}])
    \/ \E cookie \in CookieHeaders :
           ApiRequest([pathname |-> ApiPath, cookie |-> cookie, headers |-> {}])

SpecSession == Init /\ [][NextSession]_vars

----------------------------------------------------------------------------
(* The process with and without JWT_SECRET in its environment.  Nothing reads *)
(* the variable before a request does: jwt.sign throws on an undefined        *)
(* secret, jwt.verify rejects, and jose is handed the bytes of no text.       *)

\* a user who registered before the process was started
Alice ==
    [id |-> "u1", email |-> "alice@example.com", name |-> "Alice",
     aspNetUser |-> AspNetUser(bcryptHash("secret"))]

InitEnv ==
    /\ GateInit
    /\ env \in {SecretValue, Undefined}
    /\ db = {Alice}
    /\ regs = [i \in 1..MaxRegs |-> NoReg]
    /\ api = NoApi
    /\ loggedOut = {}
    /\ ClientInit
    /\ AppInit

NextEnv ==
    \/ Complete
    \/ \E d \in TickSteps : Tick(d)
    \/ \E user \in DbUsers : Login(user)
    \/ \E body \in LoginBodies : Idle /\ LoginRoute(body)
    \/ \E pathname \in SessionPaths, cookie \in CookieHeaders :
           PageRequest([pathname |-> pathname, cookie |-> cookie, headers |-> {}])
    \/ \E cookie \in CookieHeaders :
           ApiRequest([pathname |-> ApiPath, cookie |-> cookie, headers |-> {}])

SpecEnv == InitEnv /\ [][NextEnv]_vars

----------------------------------------------------------------------------
(* The AuthProvider of the browser: the two mount effects, verifySession with *)
(* its fallback, and logout.  A user object is held as its id.                *)

\* what the server leaves to the client: nothing of the server changes here
serverVars == <<authVars, appVars>>

\* response.data.user of a 2xx answer: a user, or no user key in the body
ResponseUsers == {"u1", "u2", Undefined}

\* the ways an axios call is rejected: a status outside 2xx, no answer, the
\* timeout of 3000 ms, a body without data (reading .user of it throws)
Rejections == {"status", "network", "timeout", "nodata"}

\* what a request of verifySession came to: an answer with response.data.user,
\* or a rejection
Got(u) == [outcome |-> "ok", user |-> u]

Failed(kind) == [outcome |-> kind, user |-> Null]

\* the effects of the first commit: useEffect(() => { setHasMounted(true) }, []),
\* and the second effect, which returns at once, hasMounted being false in this
\* render; React keeps its dependencies [hasMounted] of this render
Mount ==
    /\ ~hasMounted
    /\ ctl.deps = <<>>
    /\ hasMounted' = TRUE
    /\ ctl' = [ctl EXCEPT !.deps = <<hasMounted>>]
    /\ UNCHANGED <<currentUser, isLoading>>
    /\ UNCHANGED serverVars

\* an effect that also depends on isLoading
StartVerifyOnLoading ==
    /\ ctl.deps # <<>>
    /\ ctl.deps # <<hasMounted, isLoading>>
    /\ ctl' = IF hasMounted
              THEN [ctl EXCEPT !.deps = <<hasMounted, isLoading>>, !.pc = "user",
                               !.started = @ + 1]
              ELSE [ctl EXCEPT !.deps = <<hasMounted, isLoading>>]
    /\ UNCHANGED <<currentUser, isLoading, hasMounted>>
    /\ UNCHANGED serverVars

\* after a render in which a dependency of [hasMounted] differs from the one
\* kept, the second effect runs again; with hasMounted true it calls
\* verifySession: GET /api/auth/user is sent
StartVerify ==
    /\ ctl.deps # <<>>
    /\ ctl.deps # <<hasMounted>>
    /\ ctl' = IF hasMounted
              THEN [ctl EXCEPT !.deps = <<hasMounted>>, !.pc = "user",
                               !.started = @ + 1]
              ELSE [ctl EXCEPT !.deps = <<hasMounted>>]
    /\ UNCHANGED <<currentUser, isLoading, hasMounted>>
    /\ UNCHANGED serverVars

\* GET /api/auth/user answers: setUser(response.data.user), then finally
UserSucceeds(u) ==
    /\ ctl.pc = "user"
    /\ currentUser' = u
    /\ isLoading' = FALSE
    /\ ctl' = [ctl EXCEPT !.pc = "settled", !.trail = Append(@, Got(u))]
    /\ UNCHANGED hasMounted
    /\ UNCHANGED serverVars

\* GET /api/auth/user is rejected: the catch sends GET /api/auth/verify
UserFails(kind) ==
    /\ ctl.pc = "user"
    /\ ctl' = [ctl EXCEPT !.pc = "verify", !.trail = Append(@, Failed(kind))]
    /\ UNCHANGED <<currentUser, isLoading, hasMounted>>
    /\ UNCHANGED serverVars

\* a fallback that forgets the user it was given
VerifySucceedsDropsUser(u) ==
    /\ ctl.pc = "verify"
    /\ currentUser' = Null
    /\ isLoading' = FALSE
    /\ ctl' = [ctl EXCEPT !.pc = "settled", !.trail = Append(@, Got(u))]
    /\ UNCHANGED hasMounted
    /\ UNCHANGED serverVars

\* GET /api/auth/verify answers: setUser(fallbackResponse.data.user), finally
VerifySucceeds(u) ==
    /\ ctl.pc = "verify"
    /\ currentUser' = u
    /\ isLoading' = FALSE
    /\ ctl' = [ctl EXCEPT !.pc = "settled", !.trail = Append(@, Got(u))]
    /\ UNCHANGED hasMounted
    /\ UNCHANGED serverVars

\* a verifySession whose last catch leaves the loading state as it is
VerifyFailsNoFinally(kind) ==
    /\ ctl.pc = "verify"
    /\ currentUser' = Null
    /\ ctl' = [ctl EXCEPT !.pc = "settled", !.trail = Append(@, Failed(kind))]
    /\ UNCHANGED <<isLoading, hasMounted>>
    /\ UNCHANGED serverVars

\* GET /api/auth/verify is rejected too: setUser(null), then finally
VerifyFails(kind) ==
    /\ ctl.pc = "verify"
    /\ currentUser' = Null
    /\ isLoading' = FALSE
    /\ ctl' = [ctl EXCEPT !.pc = "settled", !.trail = Append(@, Failed(kind))]
    /\ UNCHANGED hasMounted
    /\ UNCHANGED serverVars

\* logout() is called: POST /api/auth/logout is sent
LogoutCalled ==
    /\ hasMounted
    /\ ctl.logouts < MaxLogouts
    /\ ctl' = [ctl EXCEPT !.posting = @ + 1, !.logouts = @ + 1]
    /\ UNCHANGED <<currentUser, isLoading, hasMounted>>
    /\ UNCHANGED serverVars

\* the post is answered: setUser(null)
LogoutResolves ==
    /\ ctl.posting > 0
    /\ currentUser' = Null
    /\ ctl' = [ctl EXCEPT !.posting = @ - 1, !.resolved = @ + 1]
    /\ UNCHANGED <<isLoading, hasMounted>>
    /\ UNCHANGED serverVars

\* the ways the post of logout is rejected
LogoutErrors == {"status", "network"}

\* a logout that logs the error and keeps it from its caller
LogoutRejectsSwallowing(error) ==
    /\ ctl.posting > 0
    /\ ctl' = [ctl EXCEPT !.posting = @ - 1, !.failed = Append(@, error)]
    /\ UNCHANGED <<currentUser, isLoading, hasMounted>>
    /\ UNCHANGED serverVars

\* the post is rejected: the error is logged and thrown to the caller
LogoutRejects(error) ==
    /\ ctl.posting > 0
    /\ ctl' = [ctl EXCEPT !.posting = @ - 1, !.failed = Append(@, error),
                          !.thrown = Append(@, error)]
    /\ UNCHANGED <<currentUser, isLoading, hasMounted>>
    /\ UNCHANGED serverVars

\* a request of verifySession comes to its end
UserSettles ==
    \/ \E u \in ResponseUsers : UserSucceeds(u)
    \/ \E kind \in Rejections : UserFails(kind)

VerifySettles ==
    \/ \E u \in ResponseUsers : VerifySucceeds(u)
    \/ \E kind \in Rejections : VerifyFails(kind)

NextClient ==
    \/ Mount
    \/ StartVerify
    \/ UserSettles
    \/ VerifySettles
    \/ LogoutCalled
    \/ LogoutResolves
    \/ \E error \in LogoutErrors : LogoutRejects(error)

\* React runs the effects of a committed render, and each of the two requests
\* of verifySession is given timeout: 3000, so it is answered or rejected
FairClient ==
    /\ WF_vars(Mount)
    /\ WF_vars(StartVerify)
    /\ WF_vars(UserSettles)
    /\ WF_vars(VerifySettles)

SpecClient == Init /\ [][NextClient]_vars /\ FairClient

----------------------------------------------------------------------------
(* The protected layout: ProtectedLayoutContent under the AuthProvider.  What *)
(* it renders is a function of isMounted and of the provider's isLoading and  *)
(* user; its second effect sends the browser to /login.                       *)

\* JavaScript !user for the identity of the provider
NoUser(user) == user \in {Null, Undefined}

\* a layout that looks at the loading state alone
ProtectedLayoutContentAnyUser(mounted, loading, user) ==
    IF ~mounted \/ loading THEN "Loader2"
    ELSE "children"

\* what ProtectedLayoutContent returns: the loading indicator, null, or the
\* page with its children
ProtectedLayoutContent(mounted, loading, user) ==
    IF ~mounted \/ loading THEN "Loader2"
    ELSE IF NoUser(user) THEN "null"
    ELSE "children"

\* the layout that shows a message with a link to /login instead of redirecting
ProtectedLayoutPrompt(mounted, loading, user) ==
    IF ~mounted \/ loading THEN "Loader2"
    ELSE IF NoUser(user) THEN "Authentication Required"
    ELSE "children"

\* the first effect of the layout, after its first commit: setIsMounted(true).
\* The effects of a child run before those of its parent, so it precedes the
\* effects of the AuthProvider
LayoutMount ==
    /\ ~isMounted
    /\ ~hasMounted
    /\ isMounted' = TRUE
    /\ UNCHANGED router
    /\ UNCHANGED <<authVars, clientVars, storeVars, reqVars, boardVars>>

\* the second effect, dependencies [user, isLoading, isMounted, router]: it
\* runs after the first commit and after every render in which one of them
\* differs, and with no user after loading it calls router.push("/login")
LayoutEffect ==
    /\ router.deps # <<currentUser, isLoading, isMounted>>
    /\ router' = [deps |-> <<currentUser, isLoading, isMounted>>,
                  pathname |-> IF isMounted /\ ~isLoading /\ NoUser(currentUser)
                               THEN "/login" ELSE router.pathname]
    /\ UNCHANGED isMounted
    /\ UNCHANGED <<authVars, clientVars, storeVars, reqVars, boardVars>>

NextLayout ==
    \/ LayoutMount
    \/ LayoutEffect
    \/ isMounted /\ Mount
    \/ StartVerify
    \/ UserSettles
    \/ VerifySettles
    \/ LogoutCalled
    \/ LogoutResolves
    \/ \E error \in LogoutErrors : LogoutRejects(error)

SpecLayout == Init /\ [][NextLayout]_vars

----------------------------------------------------------------------------
(* The resource routes: the workspaces, the projects and the users of a     *)
(* workspace, the tasks of a project, the status of a task and the comments *)
(* of a task, over the tables of the database.  A handler runs as one step; *)
(* the clock stands still, so the session cookies stay valid.               *)

\* NextResponse.json(body, {status}) of a route, with the request it answers
Json(route, request, target, status, error, rows) ==
    [route |-> route, cookie |-> request.cookie, target |-> target,
     status |-> status, error |-> error, rows |-> rows]

\* the id given to the next row of a table
cuid(table) ==
    LET pool == [workSpace |-> <<"w1", "w2", "w3">>, project |-> <<"p1", "p2", "p3">>,
                 task |-> <<"t1", "t2", "t3">>]
    IN  pool[table][Cardinality(prisma[table]) + 1]

\* the tables with the first n of the writes done
Written(tables, writes, n) ==
    [ t \in DOMAIN tables |->
        tables[t] \cup { writes[i].row : i \in { j \in 1..n : writes[j].table = t } } ]

\* writes done one after the other, each kept when a later one fails
dbTransactionNoRollback(tables, writes, failsAt) ==
    IF failsAt \in 1..Len(writes) THEN Written(tables, writes, failsAt - 1)
    ELSE Written(tables, writes, Len(writes))

\* db.$transaction(async (prisma) => {...}): all the writes, or none of them
\* when one of the creates throws
dbTransaction(tables, writes, failsAt) ==
    IF failsAt \in 1..Len(writes) THEN tables
    ELSE Written(tables, writes, Len(writes))

\* title: z.string().min(1).max(100) of createWorkspaceSchema
createWorkspaceSchema(body) == StringLength(body.title) \in 1..100

\* title: z.string().min(1).max(100) of createProjectSchema
createProjectSchema(body) == StringLength(body.title) \in 1..100

\* title: z.string().min(1).max(200) of createTaskSchema
createTaskSchema(body) == StringLength(body.title) \in 1..200

\* status: z.number().int().min(0).max(2)
updateTaskStatusSchema(body) == body.status \in 0..2

\* body: z.string().min(1)
commentSchema(body) == StringLength(body.body) >= 1

checkWorkspaceAccess(userId, workspaceId) ==
    \E m \in prisma.workSpaceUser : m.userId = userId /\ m.workSpaceId = workspaceId

checkProjectAccess(userId, projectId) ==
    \E m \in prisma.userProject : m.userId = userId /\ m.projectId = projectId

checkTaskAccess(userId, taskId) ==
    \E task \in prisma.task :
        /\ task.id = taskId
        /\ \E m \in prisma.workSpaceUser :
               m.workSpaceId = task.workSpaceId /\ m.userId = userId /\ m.isActive

\* what the other parts of the program do not see of the resource routes
outsideStore == <<authVars, clientVars, layoutVars, reqVars, boardVars>>

outsideRequirements == <<authVars, clientVars, layoutVars, storeVars, boardVars>>

outsideBoard == <<authVars, clientVars, layoutVars, storeVars, reqVars>>

\* GET /api/workspaces
WorkspacesGET(request) ==
    LET userId == getUserIdFromTokenSync(request, now) IN
    /\ reply' = IF NoUser(userId)
                THEN Json("GET workspaces", request, "", 401, "Unauthorized", {})
                ELSE Json("GET workspaces", request, "", 200, "",
                          { m.workSpaceId : m \in { x \in prisma.workSpaceUser :
                                                      x.userId = userId } })
    /\ UNCHANGED prisma
    /\ UNCHANGED outsideStore

\* POST /api/workspaces: the workspace and the membership of its creator
WorkspacesPOST(request, body, failsAt) ==
    LET userId == getUserIdFromTokenSync(request, now)
        id == cuid("workSpace")
        writes == << [table |-> "workSpace", row |-> [id |-> id, createdById |-> userId]],
                     [table |-> "workSpaceUser",
                      row |-> [workSpaceId |-> id, userId |-> userId,
                               isWorkSpaceOwner |-> TRUE, isWorkSpaceAdmin |-> TRUE,
                               isActive |-> TRUE]] >>
    IN
    /\ Cardinality(prisma.workSpace) < MaxRows
    /\ IF NoUser(userId)
       THEN /\ reply' = Json("POST workspaces", request, "", 401, "Unauthorized", {})
            /\ UNCHANGED prisma
       ELSE IF ~createWorkspaceSchema(body)
       THEN /\ reply' = Json("POST workspaces", request, "", 400, "Validation failed", {})
            /\ UNCHANGED prisma
       ELSE /\ prisma' = dbTransaction(prisma, writes, failsAt)
            /\ reply' = IF failsAt \in 1..2
                        THEN Json("POST workspaces", request, "", 500,
                                  "Internal server error", {})
                        ELSE Json("POST workspaces", request, "", 201, "", {id})
    /\ UNCHANGED outsideStore

\* GET /api/workspaces/:workspaceId/projects
WorkspaceProjectsGET(request, workspaceId) ==
    LET userId == getUserIdFromTokenSync(request, now) IN
    /\ reply' = IF NoUser(userId)
                THEN Json("GET projects", request, workspaceId, 401, "Unauthorized", {})
                ELSE IF ~checkWorkspaceAccess(userId, workspaceId)
                THEN Json("GET projects", request, workspaceId, 403,
                          "Access denied to this workspace", {})
                ELSE Json("GET projects", request, workspaceId, 200, "",
                          { p.id : p \in { x \in prisma.project :
                                             x.workSpaceId = workspaceId } })
    /\ UNCHANGED prisma
    /\ UNCHANGED outsideStore

\* POST /api/workspaces/:workspaceId/projects: the project and the membership
\* of its creator
WorkspaceProjectsPOST(request, workspaceId, body, failsAt) ==
    LET userId == getUserIdFromTokenSync(request, now)
        id == cuid("project")
        writes == << [table |-> "project",
                      row |-> [id |-> id, workSpaceId |-> workspaceId,
                               createdById |-> userId]],
                     [table |-> "userProject",
                      row |-> [projectId |-> id, userId |-> userId,
                               isProjectManager |-> TRUE]] >>
    IN
    /\ Cardinality(prisma.project) < MaxRows
    /\ IF NoUser(userId)
       THEN /\ reply' = Json("POST projects", request, workspaceId, 401,
                             "Unauthorized", {})
            /\ UNCHANGED prisma
       ELSE IF ~checkWorkspaceAccess(userId, workspaceId)
       THEN /\ reply' = Json("POST projects", request, workspaceId, 403,
                             "Access denied to this workspace", {})
            /\ UNCHANGED prisma
       ELSE IF ~createProjectSchema(body)
       THEN /\ reply' = Json("POST projects", request, workspaceId, 400,
                             "Validation failed", {})
            /\ UNCHANGED prisma
       ELSE /\ prisma' = dbTransaction(prisma, writes, failsAt)
            /\ reply' = IF failsAt \in 1..2
                        THEN Json("POST projects", request, workspaceId, 500,
                                  "Internal server error", {})
                        ELSE Json("POST projects", request, workspaceId, 201, "", {id})
    /\ UNCHANGED outsideStore

\* the names bound where the users route builds its queries: the imports, the
\* parameters of GET and its constants
usersRouteScope ==
    {"NextRequest", "NextResponse", "db", "getUserIdFromTokenSync",
     "request", "params", "userId", "workspaceId"}

\* GET /api/workspaces/:workspaceId/users: the where objects name workSpaceId,
\* and reading a name that is not bound throws a ReferenceError into the catch
WorkspaceUsersGET(request, workspaceId) ==
    LET userId == getUserIdFromTokenSync(request, now) IN
    /\ reply' = IF NoUser(userId)
                THEN Json("GET users", request, workspaceId, 401, "Unauthorized", {})
                ELSE IF "workSpaceId" \notin usersRouteScope
                THEN Json("GET users", request, workspaceId, 500,
                          "Internal server error", {})
                ELSE IF ~checkWorkspaceAccess(userId, workspaceId)
                THEN Json("GET users", request, workspaceId, 403,
                          "Access denied to this workspace", {})
                ELSE Json("GET users", request, workspaceId, 200, "",
                          { m.userId : m \in { x \in prisma.workSpaceUser :
                                x.workSpaceId = workspaceId /\ x.isActive } })
    /\ UNCHANGED prisma
    /\ UNCHANGED outsideStore

\* GET /api/projects/:projectId/tasks
ProjectTasksGET(request, projectId) ==
    LET userId == getUserIdFromTokenSync(request, now) IN
    /\ reply' = IF NoUser(userId)
                THEN Json("GET tasks", request, projectId, 401, "Unauthorized", {})
                ELSE IF ~checkProjectAccess(userId, projectId)
                THEN Json("GET tasks", request, projectId, 403,
                          "Access denied to this project", {})
                ELSE Json("GET tasks", request, projectId, 200, "",
                          { tp.taskId : tp \in { x \in prisma.taskProject :
                                                   x.projectId = projectId } })
    /\ UNCHANGED prisma
    /\ UNCHANGED outsideStore

\* POST /api/projects/:projectId/tasks, without assignees: the task and its
\* link to the project; the task lies in the workspace of its project
ProjectTasksPOST(request, projectId, body, failsAt) ==
    LET userId == getUserIdFromTokenSync(request, now)
        id == cuid("task")
        project == CHOOSE p \in prisma.project : p.id = projectId
        writes == << [table |-> "task",
                      row |-> [id |-> id, projectId |-> projectId,
                               workSpaceId |-> project.workSpaceId,
                               createdById |-> userId, status |-> 0,
                               lastEditedById |-> Null]],
                     [table |-> "taskProject",
                      row |-> [taskId |-> id, projectId |-> projectId]] >>
    IN
    /\ Cardinality(prisma.task) < MaxRows
    /\ IF NoUser(userId)
       THEN /\ reply' = Json("POST tasks", request, projectId, 401, "Unauthorized", {})
            /\ UNCHANGED prisma
       ELSE IF ~checkProjectAccess(userId, projectId)
       THEN /\ reply' = Json("POST tasks", request, projectId, 403,
                             "Access denied to this project", {})
            /\ UNCHANGED prisma
       ELSE IF ~createTaskSchema(body)
       THEN /\ reply' = Json("POST tasks", request, projectId, 400,
                             "Validation failed", {})
            /\ UNCHANGED prisma
       ELSE /\ prisma' = dbTransaction(prisma, writes, failsAt)
            /\ reply' = IF failsAt \in 1..2
                        THEN Json("POST tasks", request, projectId, 500,
                                  "Internal server error", {})
                        ELSE Json("POST tasks", request, projectId, 201, "", {id})
    /\ UNCHANGED outsideStore

\* PATCH /api/tasks/:taskId/status
TaskStatusPATCH(request, taskId, body) ==
    LET userId == getUserIdFromTokenSync(request, now) IN
    /\ IF NoUser(userId)
       THEN /\ reply' = Json("PATCH status", request, taskId, 401, "Unauthorized", {})
            /\ UNCHANGED prisma
       ELSE IF ~checkTaskAccess(userId, taskId)
       THEN /\ reply' = Json("PATCH status", request, taskId, 403,
                             "Access denied to this task", {})
            /\ UNCHANGED prisma
       ELSE IF ~updateTaskStatusSchema(body)
       THEN /\ reply' = Json("PATCH status", request, taskId, 400,
                             "Validation failed", {})
            /\ UNCHANGED prisma
       ELSE /\ prisma' = [prisma EXCEPT !.task =
                            { IF x.id = taskId
                              THEN [x EXCEPT !.status = body.status,
                                             !.lastEditedById = userId]
                              ELSE x : x \in @ }]
            /\ reply' = Json("PATCH status", request, taskId, 200, "", {taskId})
    /\ UNCHANGED outsideStore

\* the userProjects of include: {project: {include: {userProjects: {where:
\* {userId}}}}}: a filter whose value is undefined is left out of the query
userProjectsOf(task, userId) ==
    { m \in prisma.userProject :
        m.projectId = task.projectId /\ (userId = Undefined \/ m.userId = userId) }

\* GET /api/tasks/:taskId/comments
CommentsGET(request, taskId) ==
    LET token == getToken(request, now)
        userId == AsString(token.payload, "sub")
        found == { x \in prisma.task : x.id = taskId }
    IN
    /\ reply' = IF ~token.found
                THEN Json("GET comments", request, taskId, 401, "Unauthorized", {})
                ELSE IF found = {}
                THEN Json("GET comments", request, taskId, 404, "Task not found", {})
                ELSE IF userProjectsOf(CHOOSE x \in found : TRUE, userId) = {}
                THEN Json("GET comments", request, taskId, 403,
                          "Access denied to this task", {})
                ELSE Json("GET comments", request, taskId, 200, "",
                          { c \in prisma.comment : c.taskId = taskId })
    /\ UNCHANGED prisma
    /\ UNCHANGED outsideStore

\* POST /api/tasks/:taskId/comments: comment.create without a userId throws a
\* validation error, which ends in the 500 of the catch
CommentsPOST(request, taskId, body) ==
    LET token == getToken(request, now)
        userId == AsString(token.payload, "sub")
        found == { x \in prisma.task : x.id = taskId }
    IN
    /\ Cardinality(prisma.comment) < MaxRows
    /\ IF ~token.found
       THEN /\ reply' = Json("POST comments", request, taskId, 401, "Unauthorized", {})
            /\ UNCHANGED prisma
       ELSE IF found = {}
       THEN /\ reply' = Json("POST comments", request, taskId, 404, "Task not found", {})
            /\ UNCHANGED prisma
       ELSE IF userProjectsOf(CHOOSE x \in found : TRUE, userId) = {}
       THEN /\ reply' = Json("POST comments", request, taskId, 403,
                             "Access denied to this task", {})
            /\ UNCHANGED prisma
       ELSE IF ~commentSchema(body)
       THEN /\ reply' = Json("POST comments", request, taskId, 400,
                             "Validation error", {})
            /\ UNCHANGED prisma
       ELSE IF userId = Undefined
       THEN /\ reply' = Json("POST comments", request, taskId, 500,
                             "Internal server error", {})
            /\ UNCHANGED prisma
       ELSE /\ prisma' = [prisma EXCEPT !.comment =
                            @ \cup {[taskId |-> taskId, userId |-> userId,
                                     body |-> body.body]}]
            /\ reply' = Json("POST comments", request, taskId, 201, "",
                             {[taskId |-> taskId, userId |-> userId,
                               body |-> body.body]})
    /\ UNCHANGED outsideStore

\* the requests of the clients: without cookie, with a cookie that is no
\* token, with the session cookie the login route set for a user
SessionRequests ==
    { [NoRequest EXCEPT !.cookie = c] :
        c \in {NoCookieHeader, CookieHeader(<< <<AuthCookie, Garbage>> >>)}
                \cup { CookieHeader(<< <<AuthCookie, loginToken(u, now)>> >>) :
                         u \in TokenUsers } }

\* the ids in the paths of the requests
PathIds == [workSpace |-> {"w1", "w2"}, project |-> {"p1", "p2"}, task |-> {"t1", "t2"}]

\* JSON bodies with a title
TitleBodies == { [title |-> "Plan"], [title |-> ""] }

NextStore ==
    \/ \E request \in SessionRequests : WorkspacesGET(request)
    \/ \E request \in SessionRequests, body \in TitleBodies, failsAt \in 0..2 :
           WorkspacesPOST(request, body, failsAt)
    \/ \E request \in SessionRequests, id \in PathIds.workSpace :
           WorkspaceProjectsGET(request, id)
    \/ \E request \in SessionRequests, id \in PathIds.workSpace,
          body \in TitleBodies, failsAt \in 0..2 :
           WorkspaceProjectsPOST(request, id, body, failsAt)
    \/ \E request \in SessionRequests, id \in PathIds.workSpace :
           WorkspaceUsersGET(request, id)
    \/ \E request \in SessionRequests, id \in PathIds.project :
           ProjectTasksGET(request, id)
    \/ \E request \in SessionRequests, id \in PathIds.project,
          body \in TitleBodies, failsAt \in 0..2 :
           ProjectTasksPOST(request, id, body, failsAt)
    \/ \E request \in SessionRequests, id \in PathIds.task, status \in {1, 3} :
           TaskStatusPATCH(request, id, [status |-> status])
    \/ \E request \in SessionRequests, id \in PathIds.task :
           CommentsGET(request, id)
    \/ \E request \in SessionRequests, id \in PathIds.task, text \in {"Plan", ""} :
           CommentsPOST(request, id, [body |-> text])

SpecStore == Init /\ [][NextStore]_vars

----------------------------------------------------------------------------
(* POST /api/tasks/:taskId/requirements.  Between two awaits of a handler    *)
(* other requests are served: a handler reads the highest order in one step  *)
(* and creates its row in a later one.                                       *)

\* order: z.number().int().min(0).optional(), body: z.string().min(1)
requirementSchema(body) ==
    /\ StringLength(body.body) >= 1
    /\ body.hasOrder => body.order >= 0

\* the tasks the user of the session has access to
RequirementTasks == {"t1"}

\* the JSON bodies of the requests: without order, with an order, not valid
RequirementBodies ==
    { [body |-> "Plan", hasOrder |-> FALSE, order |-> 0],
      [body |-> "Plan", hasOrder |-> TRUE, order |-> 3],
      [body |-> "", hasOrder |-> FALSE, order |-> 0],
      [body |-> "Plan", hasOrder |-> TRUE, order |-> 0 - 1] }

\* maxOrder ? maxOrder.order + 1 : 0 over the rows of the task
nextOrder(rows, taskId) ==
    LET orders == { r.order : r \in { x \in rows : x.taskId = taskId } }
    IN  IF orders = {} THEN 0
        ELSE (CHOOSE m \in orders : \A o \in orders : o <= m) + 1

\* a request arrives and its handler runs up to the create: the session, the
\* body, the task, the highest order stored
RequirementPostReads(i, session, taskId, body) ==
    /\ posts[i].pc = "idle"
    /\ \A j \in 1..(i - 1) : posts[j].pc # "idle"
    /\ posts' = [posts EXCEPT ![i] =
          IF session = Null
             THEN [pc |-> "done", status |-> 401, taskId |-> taskId, order |-> 0,
                   given |-> FALSE, createdBy |-> session]
          ELSE IF ~requirementSchema(body)
             THEN [pc |-> "done", status |-> 400, taskId |-> taskId, order |-> 0,
                   given |-> FALSE, createdBy |-> session]
          ELSE IF taskId \notin RequirementTasks
             THEN [pc |-> "done", status |-> 404, taskId |-> taskId, order |-> 0,
                   given |-> FALSE, createdBy |-> session]
          ELSE [pc |-> "create", status |-> 0, taskId |-> taskId,
                order |-> IF body.hasOrder THEN body.order
                          ELSE nextOrder(taskRequirement, taskId),
                given |-> body.hasOrder, createdBy |-> session]]
    /\ UNCHANGED taskRequirement
    /\ UNCHANGED outsideRequirements

\* the handler goes on: db.taskRequirement.create with the order it computed
RequirementPostCreates(i) ==
    /\ posts[i].pc = "create"
    /\ taskRequirement' = taskRequirement \cup
          {[id |-> i, taskId |-> posts[i].taskId, order |-> posts[i].order,
            given |-> posts[i].given, createdBy |-> posts[i].createdBy]}
    /\ posts' = [posts EXCEPT ![i].pc = "done", ![i].status = 201]
    /\ UNCHANGED outsideRequirements

NextRequirements ==
    \/ \E i \in 1..MaxPosts, session \in {Null, "u1"}, taskId \in {"t1", "t2"},
          body \in RequirementBodies :
           RequirementPostReads(i, session, taskId, body)
    \/ \E i \in 1..MaxPosts : RequirementPostCreates(i)

SpecRequirements == Init /\ [][NextRequirements]_vars

----------------------------------------------------------------------------
(* The task board: handleDragEnd moves a task between the columns and sends  *)
(* PATCH /api/tasks/:taskId/status; the answers arrive in any order.         *)

BoardTasks == {"t1", "t2"}

ColumnIds == {"0", "1", "2"}

\* parseInt(destinationColumn.id)
parseInt(text) == CASE text = "0" -> 0 [] text = "1" -> 1 [] OTHER -> 2

Contains(tasks, id) == \E k \in 1..Len(tasks) : tasks[k] = id

\* handleDragEnd({active, over}) for a task dropped on a column or on a task:
\* the task is taken out of its column and appended to the other, the PATCH is
\* sent; the handler keeps the columns of the render it was made in
handleDragEnd(activeId, overId) ==
    LET source == { c \in ColumnIds : Contains(columns[c], activeId) }
        destination == { c \in ColumnIds : c = overId \/ Contains(columns[c], overId) }
        from == CHOOSE c \in source : TRUE
        to == CHOOSE c \in destination : TRUE
    IN
    /\ Len(drags) < MaxDrags
    /\ source # {} /\ destination # {}
    /\ from # to
    /\ columns' = [columns EXCEPT
                     ![from] = SelectSeq(@, LAMBDA t : t # activeId),
                     ![to] = Append(@, activeId)]
    /\ drags' = Append(drags, [task |-> activeId, status |-> parseInt(to),
                               closure |-> columns, pc |-> "sent"])
    /\ UNCHANGED taskStatus
    /\ UNCHANGED outsideBoard

\* the PATCH is rejected (401, 403, 400, 500 or no answer): the catch puts
\* back the columns the handler was made with, setColumns(columns)
PatchFails(d) ==
    /\ d \in 1..Len(drags)
    /\ drags[d].pc = "sent"
    /\ columns' = drags[d].closure
    /\ drags' = [drags EXCEPT ![d].pc = "failed"]
    /\ UNCHANGED taskStatus
    /\ UNCHANGED outsideBoard

\* the PATCH is served, db.task.update({data: {status}}), and answered 200
PatchSucceeds(d) ==
    /\ d \in 1..Len(drags)
    /\ drags[d].pc = "sent"
    /\ taskStatus' = [taskStatus EXCEPT ![drags[d].task] = drags[d].status]
    /\ drags' = [drags EXCEPT ![d].pc = "updated"]
    /\ UNCHANGED columns
    /\ UNCHANGED outsideBoard

NextBoard ==
    \/ \E activeId \in BoardTasks, overId \in ColumnIds \cup BoardTasks :
           handleDragEnd(activeId, overId)
    \/ \E d \in 1..MaxDrags : PatchFails(d)
    \/ \E d \in 1..MaxDrags : PatchSucceeds(d)

SpecBoard == Init /\ [][NextBoard]_vars

----------------------------------------------------------------------------
(* What the properties speak about *)

\* a page request has been answered by the edge
Handled == resp.kind # "none"

\* the request went on to its handler
Allowed == resp.kind \in {"next", "skipped"}

\* the path is a public entry or continues one after a '/'
MatchesPublic(p) ==
    \E r \in publicRoutes :
        /\ Len(r) <= Len(p)
        /\ \A i \in 1..Len(r) : p[i] = r[i]
        /\ Len(p) > Len(r) => p[Len(r) + 1] = "/"

\* the path begins with a protected entry
MatchesProtected(p) ==
    \E r \in protectedRoutes :
        Len(r) <= Len(p) /\ \A i \in 1..Len(r) : p[i] = r[i]

\* the auth-token pairs of the Cookie header that have a value
AuthPairs(request) ==
    { i \in 1..Len(request.cookie.pairs) :
        /\ request.cookie.pairs[i][1] = AuthCookie
        /\ Len(request.cookie.pairs[i]) >= 2 }

\* the value of the auth-token cookie the request carries: the text after the
\* first '=' of its pair; a text with a further '=' in it is no token
SentValue(request) ==
    IF AuthPairs(request) = {} THEN UndefinedValue
    ELSE LET pair == request.cookie.pairs[CHOOSE i \in AuthPairs(request) : TRUE]
         IN  IF Len(pair) = 2 THEN pair[2] ELSE Garbage

\* the request carries a token: an auth-token cookie with a value that is not empty
CarriesToken(request) == ~ (SentValue(request).form \in {"undefined", "empty"})

\* the sessions whose token is the value v
SessionsOf(v) == { s \in issued : v.form = "jws" /\ s.token = v }

\* v is a token signed with the secret and the time is before its expiry,
\* 24 hours after it was issued
ValidNow(v) ==
    \E s \in SessionsOf(v) : now < s.token.payload.iat + 24 * 60 * 60

\* the claim set a token was issued for: {userId, email, name?}
Claims(user) ==
    IF user.name = Undefined
    THEN [userId |-> user.id, email |-> user.email]
    ELSE [userId |-> user.id, email |-> user.email, name |-> user.name]

IdentityClaims(payload) ==
    [ k \in DOMAIN payload \cap {"userId", "email", "name"} |-> payload[k] ]

----------------------------------------------------------------------------
(* C1: every page request ends in exactly one of ALLOW (it goes on to its     *)
(* handler) and REDIRECT, and it is allowed exactly when its path matches a   *)
(* public entry, or matches no protected entry, or its auth-token cookie      *)
(* holds a token that is valid at that moment.                                *)
GatekeeperDecision ==
    Handled =>
        /\ resp.kind \in {"next", "skipped", "redirect"}
        /\ Allowed <=>
              \/ MatchesPublic(req.pathname)
              \/ ~MatchesProtected(req.pathname)
              \/ ValidNow(SentValue(req))

\* a protected path asked for with a token that has expired is redirected
GatekeeperDecisionWitness ==
    /\ Handled
    /\ MatchesProtected(req.pathname)
    /\ SessionsOf(SentValue(req)) # {}
    /\ ~ValidNow(SentValue(req))
    /\ resp.kind = "redirect"

(* C2: a token is accepted by verification exactly when it carries a          *)
(* signature made with the secret and the time is strictly before its expiry, *)
(* which is 24 hours after it was issued (by createToken or by the login      *)
(* route): accepted at T+24h-1s, rejected from T+24h on.                      *)
TokenAcceptedIffSignedAndFresh ==
    /\ \A s \in issued : s.token.payload.exp = s.token.payload.iat + 24 * 60 * 60
    /\ ident.called =>
          LET valid == ValidNow(SentValue(req)) IN
          /\ ident.token.found <=> valid
          /\ ident.userId # Null <=> valid
          /\ ident.userIdSync # Null <=> valid

\* a token sent one second before its 24 hours are over is accepted
TokenAcceptedLastSecond ==
    /\ ident.called
    /\ \E s \in SessionsOf(SentValue(req)) :
           now = s.token.payload.iat + 24 * 60 * 60 - 1
    /\ ident.token.found
    /\ ident.userIdSync # Null

NoTokenRedirect ==
    (Handled /\ MatchesProtected(req.pathname) /\ ~CarriesToken(req)) =>
        /\ resp.kind = "redirect"
        /\ resp.location =
               [pathname |-> LoginPath,
                searchParams |-> { <<"redirect", req.pathname>> }]
        /\ resp.cookiesDeleted = {}
        /\ resp.headers = {}

\* /dashboard without a Cookie header goes to /login?redirect=/dashboard
NoTokenRedirectWitness ==
    /\ Handled
    /\ req.pathname = <<"/", "dashboard">>
    /\ ~req.cookie.present
    /\ resp.kind = "redirect"
    /\ resp.location.searchParams = { <<"redirect", <<"/", "dashboard">> >> }

(* C6: a request to a protected path whose auth-token cookie holds a value    *)
(* that fails verification (malformed, bad signature, expired) is redirected  *)
(* to /login and the response deletes the auth-token cookie; no other outcome *)
(* deletes the cookie.                                                        *)
InvalidTokenRedirect ==
    Handled =>
        LET failing == /\ MatchesProtected(req.pathname)
                       /\ CarriesToken(req)
                       /\ ~ValidNow(SentValue(req))
        IN  /\ failing =>
                  /\ resp.kind = "redirect"
                  /\ resp.location.pathname = LoginPath
                  /\ AuthCookie \in resp.cookiesDeleted
            /\ resp.cookiesDeleted # {} => failing

\* /dashboard with an expired token: redirect and the cookie deleted
InvalidTokenRedirectWitness ==
    /\ Handled
    /\ req.pathname = <<"/", "dashboard">>
    /\ \E s \in SessionsOf(SentValue(req)) : now > s.token.payload.exp
    /\ resp.kind = "redirect"
    /\ resp.cookiesDeleted = {AuthCookie}

(* C7: every authentication failure on a protected path, the cookie absent or *)
(* the cookie invalid or expired, is answered by a redirect to the login page *)
(* that preserves the path asked for.                                         *)
AuthFailurePreservesPath ==
    (Handled /\ MatchesProtected(req.pathname) /\ ~Allowed) =>
        /\ resp.kind = "redirect"
        /\ resp.location.pathname = LoginPath
        /\ <<"redirect", req.pathname>> \in resp.location.searchParams

(* C7, amended: every authentication failure on a protected path is answered  *)
(* by a redirect to the login page; the path asked for is preserved, as the   *)
(* redirect parameter, exactly when the request carried no token; when it     *)
(* carried a token that is invalid or expired the redirect has no parameter.  *)
AuthFailureRedirect ==
    (Handled /\ MatchesProtected(req.pathname) /\ ~Allowed) =>
        /\ resp.kind = "redirect"
        /\ resp.location.pathname = LoginPath
        /\ resp.location.searchParams =
               IF CarriesToken(req) THEN {} ELSE { <<"redirect", req.pathname>> }

\* /dashboard/x with a token of a bad signature: the redirect forgets the path
AuthFailureRedirectWitness ==
    /\ Handled
    /\ req.pathname = <<"/", "dashboard", "/", "x">>
    /\ SentValue(req).form = "jws"
    /\ SessionsOf(SentValue(req)) = {}
    /\ resp.kind = "redirect"
    /\ resp.location = [pathname |-> LoginPath, searchParams |-> {}]

(* C8: a request to a protected path with a valid token is allowed and its    *)
(* handler receives, as request headers, x-user-id and x-user-email equal to  *)
(* the userId and email claims of the token.                                  *)
IdentityHeadersReachHandler ==
    (Handled /\ MatchesProtected(req.pathname)) =>
        \A s \in SessionsOf(SentValue(req)) :
            now < s.token.payload.exp =>
                /\ resp.kind = "next"
                /\ <<"x-user-id", s.user.id>> \in resp.handlerHeaders
                /\ <<"x-user-email", s.user.email>> \in resp.handlerHeaders

(* C9: a request whose path matches a public entry is allowed whatever its    *)
(* cookie is, the cookie is not deleted, no identity header is set and the    *)
(* request reaches its handler as it came; public is decided before           *)
(* protected.                                                                 *)
PublicAlwaysAllowed ==
    (Handled /\ MatchesPublic(req.pathname)) =>
        /\ Allowed
        /\ resp.location = NoLocation
        /\ resp.cookiesDeleted = {}
        /\ resp.headers = {}
        /\ resp.handlerHeaders = req.headers

\* /login/x asked for with an expired token
PublicAlwaysAllowedWitness ==
    /\ Handled
    /\ req.pathname = <<"/", "login", "/", "x">>
    /\ \E s \in SessionsOf(SentValue(req)) : now >= s.token.payload.exp
    /\ resp.kind = "next"

(* C10: on every allowed request the identity headers the handler sees never  *)
(* come from the client: x-user-id and x-user-email are absent or carry the   *)
(* claims of a token the middleware verified for this request.                *)
IdentityHeadersOnlyFromGatekeeper ==
    (Handled /\ Allowed) =>
        \A h \in resp.handlerHeaders :
            h[1] \in {"x-user-id", "x-user-email"} =>
                \E s \in SessionsOf(SentValue(req)) :
                    /\ resp.kind = "next"
                    /\ MatchesProtected(req.pathname)
                    /\ now < s.token.payload.exp
                    /\ h[2] = IF h[1] = "x-user-id" THEN s.user.id ELSE s.user.email

LeftOut(p) ==
    /\ Len(p) >= 2
    /\ \/ p[2] \in {"api", "favicon.ico"}
       \/ Len(p) >= 4 /\ p[2] = "_next" /\ p[3] = "/" /\ p[4] \in {"static", "image"}

ExtractorIdentityOrNull ==
    ident.called =>
        LET v == SentValue(req) IN
        /\ ValidNow(v) =>
              \E s \in SessionsOf(v) :
                  /\ ident.userId = s.user.id
                  /\ ident.userIdSync = s.user.id
                  /\ ident.token.found
                  /\ IdentityClaims(ident.token.payload) = Claims(s.user)
        /\ ~ValidNow(v) =>
              /\ ident.userId = Null
              /\ ident.userIdSync = Null
              /\ ident.token = NoPayload

(* C13: cookie parsing splits each pair at its first '=' only: the value      *)
(* extracted for a cookie name is the whole text after the first '=' of its   *)
(* pair, further '=' included (here: all the parts of the pair after the      *)
(* name), for every Cookie header.                                            *)
SplitsOnFirstEquals ==
    (ident.called /\ req.cookie.present) =>
        \A i \in DOMAIN req.cookie.pairs :
            LET pair == req.cookie.pairs[i] IN
            (/\ Len(pair) >= 2
             /\ \A j \in DOMAIN req.cookie.pairs : j # i => req.cookie.pairs[j][1] # pair[1])
                => /\ pair[1] \in DOMAIN jar
                   /\ <<jar[pair[1]]>> = Tail(pair)

\* a pair without '=' or without a name
Malformed(pair) == Len(pair) = 1 \/ pair[1] = ""

\* the request with the malformed pairs of its Cookie header taken out
WithoutMalformed(request) ==
    [request EXCEPT !.cookie.pairs = SelectSeq(@, LAMBDA pair : ~Malformed(pair))]

(* C14: malformed cookie pairs (no '=', or an empty name) are skipped: the    *)
(* identity the extractors return for a header is the identity they return    *)
(* for the header without its malformed pairs, wherever these stand, a bare   *)
(* auth-token pair after a well-formed auth-token pair included.              *)
MalformedPairsSkipped ==
    ident.called =>
        /\ ident.userId = getUserIdFromToken(WithoutMalformed(req), now)
        /\ ident.userIdSync = getUserIdFromTokenSync(WithoutMalformed(req), now)

\* the request GET /api/auth/verify answered last
VerifyRequest == [pathname |-> ApiPath, cookie |-> api.input, headers |-> {}]

(* C15: GET /api/auth/verify answers 200 with {user} for the user of the      *)
(* token when the request carries a valid token of an existing user (register *)
(* a user, log in, call verify with the login's cookie: the same email comes  *)
(* back), and 401 when the request carries no valid identity.                 *)
VerifyReturnsUser ==
    api.route = "verify" =>
        LET v == SentValue(VerifyRequest) IN
        /\ \A s \in SessionsOf(v), u \in db :
               (now < s.token.payload.exp /\ u.id = s.user.id) =>
                   /\ api.status = 200
                   /\ api.body = UserBody(u)
                   /\ api.body.email = s.user.email
        /\ ~ValidNow(v) => api.status = 401

\* the login request names an email no user has, a user without credential
\* record, or a user with another password
UnknownEmail(body) == \A u \in db : u.email # toLowerCase(body.email)

NoCredentialRecord(body) ==
    \E u \in db : u.email = toLowerCase(body.email) /\ ~u.aspNetUser.present

WrongPassword(body) ==
    \E u \in db :
        /\ u.email = toLowerCase(body.email)
        /\ u.aspNetUser.present
        /\ u.aspNetUser.passwordHash # <<"bcrypt", body.password>>

(* C16: the failures of a login are indistinguishable: an unknown email, a    *)
(* user without credential record and a wrong password are all answered by    *)
(* the same 401 {error: 'Invalid email or password'}, and none of them sets   *)
(* the auth-token cookie.                                                     *)
LoginFailuresIndistinguishable ==
    (/\ api.route = "login"
     /\ IsEmail(api.input.email)
     /\ api.input.password # ""
     /\ \/ UnknownEmail(api.input)
        \/ NoCredentialRecord(api.input)
        \/ WrongPassword(api.input)) =>
            /\ api.status = 401
            /\ api.body = [error |-> "Invalid email or password"]
            /\ api.cookie = UndefinedValue

\* a registered user logs in with a wrong password: 401, no cookie
LoginFailuresIndistinguishableWitness ==
    /\ api.route = "login"
    /\ WrongPassword(api.input)
    /\ api.status = 401
    /\ api.cookie = UndefinedValue
    /\ \E i \in 1..MaxRegs : regs[i].status = 201

(* C17: for any sequence and interleaving of POST /api/auth/register          *)
(* requests: a request with an invalid body is answered 400, a request whose  *)
(* email is taken (compared without case) is answered 409 and creates         *)
(* nothing, every other request is answered 201; and no two user rows share   *)
(* a lower-cased email.                                                       *)
RegisterOutcomes ==
    /\ \A i \in 1..MaxRegs :
           regs[i].pc = "done" =>
               /\ regs[i].status = 400 <=> ~registerSchemaAccepts(regs[i].body)
               /\ regs[i].status \in {400, 409, 201}
               /\ regs[i].status \in {409, 201} =>
                      \E u \in db : u.email = toLowerCase(regs[i].body.email)
    /\ \A u1, u2 \in db :
           toLowerCase(u1.email) = toLowerCase(u2.email) => u1 = u2

(* C18: there is no revocation on the server: a token that was issued stays   *)
(* accepted by every verifier (the two extractors, getToken, the middleware)  *)
(* until it expires, whether or not its user has logged out in between; a     *)
(* session ends by expiry, or by the client not sending the cookie any more.  *)
NoRevocation ==
    /\ ident.called =>
          \A s \in SessionsOf(SentValue(req)) :
              LET fresh == now < s.token.payload.exp IN
              /\ ident.userId = (IF fresh THEN s.user.id ELSE Null)
              /\ ident.userIdSync = (IF fresh THEN s.user.id ELSE Null)
              /\ ident.token.found <=> fresh
    /\ (Handled /\ MatchesProtected(req.pathname)) =>
          \A s \in SessionsOf(SentValue(req)) :
              resp.kind = "next" <=> now < s.token.payload.exp

\* the token of a user who has logged out is sent again and is accepted
NoRevocationWitness ==
    /\ ident.called
    /\ \E s \in SessionsOf(SentValue(req)) \cap loggedOut :
           /\ ident.userId = s.user.id
           /\ ident.userIdSync = s.user.id
           /\ ident.token.found

(* C19: when JWT_SECRET is absent from the environment the process fails at   *)
(* startup: no request is ever handled, no token is ever issued and no token  *)
(* is ever verified.                                                          *)
StartupFailsWithoutSecret ==
    env = Undefined =>
        /\ ~Handled
        /\ ~ident.called
        /\ api = NoApi
        /\ issued = {}

(* C20: the Client Session Context starts as {identity: null, isLoading:      *)
(* true}; on every path of the verification at mount (the first endpoint      *)
(* answers, the fallback answers, both fail, a timeout) isLoading becomes     *)
(* false in the end, and once false it never is true again.                   *)
LoadingEnds ==
    /\ currentUser = Null /\ isLoading = TRUE
    /\ [][isLoading = FALSE => isLoading' = FALSE]_vars
    /\ <>(isLoading = FALSE)

\* both requests ran into the timeout: no user, and loading is over
LoadingEndsWitness ==
    /\ ctl.trail = <<Failed("timeout"), Failed("timeout")>>
    /\ currentUser = Null
    /\ isLoading = FALSE

\* the identity verifySession is to leave, by what its requests came to
SettledIdentity(trail) ==
    IF trail[1].outcome = "ok" THEN trail[1].user
    ELSE IF trail[2].outcome = "ok" THEN trail[2].user
    ELSE Null

(* C21: when the verification at mount settles, the identity is the user      *)
(* /api/auth/user returned if that request succeeded, else the user           *)
(* /api/auth/verify returned if that request succeeded, else null; and the    *)
(* request to /api/auth/verify is sent only after the first request failed.   *)
IdentityAfterVerification ==
    [][ /\ (ctl.pc # "settled" /\ ctl'.pc = "settled") =>
              currentUser' = SettledIdentity(ctl'.trail)
        /\ (ctl.pc # "verify" /\ ctl'.pc = "verify") =>
              /\ ctl.pc = "user"
              /\ Len(ctl'.trail) = 1
              /\ ctl'.trail[1].outcome # "ok" ]_vars

\* the first request was rejected and the fallback returned the user u2
IdentityAfterVerificationWitness ==
    /\ ctl.pc = "settled"
    /\ ctl.trail = <<Failed("status"), Got("u2")>>
    /\ currentUser = "u2"

(* C22: the verification is started exactly once per mount and never are two  *)
(* verifications in flight: the effect starts verifySession on the change of  *)
(* hasMounted to true only, and no later change of state (identity,           *)
(* isLoading) starts it again.                                                *)
VerificationStartedOnce ==
    /\ ctl.started <= 1
    /\ ctl.started = 1 <=> ctl.pc # "notStarted"
    /\ ctl.started = 1 => hasMounted

\* verification has settled, a logout has cleared the identity since, and
\* verifySession was started once
VerificationStartedOnceWitness ==
    /\ ctl.pc = "settled"
    /\ ~isLoading
    /\ ctl.resolved > 0
    /\ ctl.started = 1

(* C23: logout() sends the logout request and then clears the identity:       *)
(* whenever a logout() has settled the identity is null, and when the request *)
(* failed logout() rejects with the error of the server.                      *)
LogoutAlwaysClears ==
    [][ ctl'.posting < ctl.posting =>
           /\ currentUser' = Null
           /\ ctl'.resolved = ctl.resolved => ctl'.thrown # ctl.thrown ]_vars

(* C23, amended: when the logout request succeeded, logout() resolves and the *)
(* identity is null; when it failed, logout() rejects with the error of the   *)
(* server and leaves the identity as it was.                                  *)
LogoutClearsOnSuccess ==
    [][ ctl'.posting < ctl.posting =>
           IF ctl'.resolved > ctl.resolved
           THEN /\ currentUser' = Null
                /\ ctl'.thrown = ctl.thrown
                /\ ctl'.failed = ctl.failed
           ELSE /\ currentUser' = currentUser
                /\ Len(ctl'.failed) = Len(ctl.failed) + 1
                /\ ctl'.thrown = Append(ctl.thrown, ctl'.failed[Len(ctl'.failed)]) ]_vars

\* a logout was rejected and the user is still there
LogoutClearsOnSuccessWitness ==
    /\ ctl.posting = 0
    /\ ctl.thrown = <<"status">>
    /\ ctl.resolved = 0
    /\ currentUser = "u1"

(* C27: once a logout() has resolved, the identity stays null for the rest of *)
(* the life of the provider, for every interleaving of logout() with the      *)
(* verification at mount, an answer to the verification that arrives after    *)
(* the logout included.                                                       *)
IdentityStaysNullAfterLogout ==
    ctl.resolved > 0 => currentUser = Null

----------------------------------------------------------------------------
(* C26: the protected layout renders its children only when isLoading is      *)
(* false and the identity is a user; while isLoading is true it renders the   *)
(* loading indicator and nothing else; when loading has ended without a user  *)
(* it never renders the children: the redirecting layout renders nothing and, *)
(* once its effect has run, has sent the browser to /login, and the other     *)
(* layout shows the login prompt.                                             *)
Rendered == ProtectedLayoutContent(isMounted, isLoading, currentUser)

RenderedPrompt == ProtectedLayoutPrompt(isMounted, isLoading, currentUser)

LayoutGuardsChildren ==
    /\ Rendered = "children" => ~isLoading /\ currentUser \notin {Null, Undefined}
    /\ RenderedPrompt = "children" <=> Rendered = "children"
    /\ isLoading => Rendered = "Loader2" /\ RenderedPrompt = "Loader2"
    /\ (~isLoading /\ currentUser = Null) =>
          /\ Rendered \in {"Loader2", "null"}
          /\ RenderedPrompt \in {"Loader2", "Authentication Required"}
          /\ isMounted => Rendered = "null" /\ RenderedPrompt = "Authentication Required"
          /\ (isMounted /\ router.deps = <<currentUser, isLoading, isMounted>>)
                => router.pathname = "/login"

LayoutGuardsChildrenWitness ==
    /\ isMounted /\ ~isLoading /\ currentUser = Null
    /\ Rendered = "null"
    /\ router.pathname = "/login"
    /\ ctl.trail = <<Failed("status"), Failed("status")>>

----------------------------------------------------------------------------
(* C24: every route that authenticates with getUserIdFromTokenSync checks     *)
(* the session first and the membership second: a request without the session *)
(* cookie of a user is answered 401 with a JSON error, a request of a user    *)
(* who is no member of the workspace, project or task it names is answered    *)
(* 403 with a JSON error, and in both cases no row is returned and no table   *)
(* changes.                                                                   *)

\* the user the login route made the cookie's token for, or null
SessionUser(cookie) ==
    IF \E u \in TokenUsers : cookie = CookieHeader(<< <<AuthCookie, loginToken(u, now)>> >>)
    THEN (CHOOSE u \in TokenUsers :
              cookie = CookieHeader(<< <<AuthCookie, loginToken(u, now)>> >>)).id
    ELSE Null

SyncRoutes ==
    {"GET workspaces", "POST workspaces", "GET projects", "POST projects",
     "GET users", "GET tasks", "POST tasks", "PATCH status"}

\* the membership a route asks for, in the tables as they stand
MemberFor(route, target, user) ==
    CASE route \in {"GET workspaces", "POST workspaces"} -> TRUE
      [] route \in {"GET projects", "POST projects", "GET users"} ->
            \E m \in prisma.workSpaceUser : m.userId = user /\ m.workSpaceId = target
      [] route \in {"GET tasks", "POST tasks"} ->
            \E m \in prisma.userProject : m.userId = user /\ m.projectId = target
      [] OTHER ->
            \E x \in prisma.task, m \in prisma.workSpaceUser :
                /\ x.id = target
                /\ m.workSpaceId = x.workSpaceId /\ m.userId = user /\ m.isActive

Refused(status) ==
    /\ reply'.status = status
    /\ reply'.error # ""
    /\ reply'.rows = {}
    /\ prisma' = prisma

AuthenticationThenMembership ==
    [][ (reply' # reply /\ reply'.route \in SyncRoutes) =>
          LET user == SessionUser(reply'.cookie) IN
          /\ user = Null => Refused(401)
          /\ (user # Null /\ ~MemberFor(reply'.route, reply'.target, user))
                => Refused(403) ]_vars

----------------------------------------------------------------------------
(* C25: the comment routes act for the user of the session cookie: a user     *)
(* who has no membership row for the project of the task is answered 403, and *)
(* a member who posts a comment gets it stored under the member's own id.     *)
CommentsActForSessionUser ==
    [][ (reply' # reply /\ reply'.route \in {"GET comments", "POST comments"}) =>
          LET user == SessionUser(reply'.cookie)
              found == { x \in prisma.task : x.id = reply'.target }
              member == \E x \in found, m \in prisma.userProject :
                            m.projectId = x.projectId /\ m.userId = user
          IN
          /\ user = Null => reply'.status = 401
          /\ (user # Null /\ found # {} /\ ~member) => reply'.status = 403
          /\ (user # Null /\ member /\ reply'.status = 201) =>
                \A c \in prisma'.comment \ prisma.comment : c.userId = user
          /\ reply'.status \notin {401, 403, 404, 400} =>
                /\ member
                /\ reply'.status \in {200, 201} ]_vars

----------------------------------------------------------------------------
(* C28: after any sequence of creation requests every workspace has the       *)
(* membership row of its creator with the owner and the admin flag, and every *)
(* project has the membership row of its creator with the project-manager     *)
(* flag: the two rows are written in one transaction, or neither is.          *)
CreatorsAreMembers ==
    /\ \A w \in prisma.workSpace :
          \E m \in prisma.workSpaceUser :
              /\ m.workSpaceId = w.id /\ m.userId = w.createdById
              /\ m.isWorkSpaceOwner /\ m.isWorkSpaceAdmin
    /\ \A p \in prisma.project :
          \E m \in prisma.userProject :
              /\ m.projectId = p.id /\ m.userId = p.createdById
              /\ m.isProjectManager

CreatorsAreMembersWitness ==
    /\ prisma.workSpace # {}
    /\ prisma.project # {}
    /\ reply.route = "POST projects"
    /\ reply.status = 201

----------------------------------------------------------------------------
(* C29: a requirement created without an order of its own gets the order 0    *)
(* when the task has no requirement yet, and otherwise an order greater than  *)
(* that of every requirement the task has when it is created, so that no two  *)
(* such requirements of a task share an order, however the requests overlap.  *)
OrdersGrow ==
    [][ \A new \in taskRequirement' \ taskRequirement :
          LET stored == { r \in taskRequirement : r.taskId = new.taskId } IN
          ~new.given =>
             /\ stored = {} => new.order = 0
             /\ \A r \in stored : new.order > r.order ]_vars

----------------------------------------------------------------------------
(* C30: once every PATCH of the board has been answered, each task stands in  *)
(* exactly one column, the column of its status on the server: a drag whose   *)
(* PATCH failed has left no trace, a drag whose PATCH succeeded is kept.      *)
BoardMatchesServer ==
    (\A d \in 1..Len(drags) : drags[d].pc # "sent") =>
        \A t \in BoardTasks :
            /\ Cardinality({ c \in ColumnIds : Contains(columns[c], t) }) = 1
            /\ \A c \in ColumnIds : Contains(columns[c], t) => parseInt(c) = taskStatus[t]

====
